---- MODULE Spec2Model ----
(***************************************************************************)
(* A model of the tool-registration and invocation framework of            *)
(* plex-mcp-server: src/app/utils/wrappers.py (the pending-component       *)
(* queue, apply_decorators, log_function_call, handle_api_errors) and the  *)
(* server subclass PlexMCP of src/app/main.py.                              *)
(*                                                                         *)
(* The specifications share the operators below:                            *)
(*   Spec        the pending queue: declarations and process(app);          *)
(*   SpecInvoke  wrapping a handler with decorators and invoking it;        *)
(*   SpecServe   the queue, then the server invoking registered callables;  *)
(*   SpecPending the queue and a caller holding a get_pending() result;     *)
(*   SpecClient  the tools of src/app/modules/client.py, step by step;      *)
(*   SpecRun     declarations at import, then run(transport) of main.py.    *)
(***************************************************************************)
EXTENDS Integers, Sequences, FiniteSets, TLC

VARIABLES
    \* ---- PendingMCPComponents (wrappers.py:26-109)
    components,     \* self.components: the pending list, in insertion order
    mcpApp,         \* self._mcpApp: None or the server given to process
    \* ---- the hosting servers, as seen through their registration API
    calls,          \* registration entry points invoked so far, in order
    registry,       \* what the returned decorators were finally applied to
    \* ---- observation of the last operation on the queue
    declared,       \* number of declarations made so far
    processes,      \* number of process calls made so far
    lastOp,         \* the last operation, its arguments, what it returned or raised
    \* ---- wrapping and invoking one handler
    aliasIterable,  \* the interpreter: is a parameterized typing alias iterable
    handler,        \* the raw handler under test (None before the first wrap)
    decorators,     \* the decorator list given to apply_decorators
    wrapped,        \* what apply_decorators(*decorators)(handler) produced
    call,           \* the last invocation of wrapped: behaviour, outcome, records
    \* ---- the running server
    served,         \* index in registry of the callable last invoked (0: none)
    \* ---- PendingMCPComponents.instance() and get_pending()
    singleton,      \* PendingMCPComponents._instance: 0 (None) or the object
    created,        \* number of PendingMCPComponents objects constructed
    held,           \* the list a caller got from get_pending()
    \* ---- the client tools (client.py)
    run,            \* the tool call in progress or last finished
    \* ---- run() of main.py
    started         \* what run() validated, flushed into and started

queueVars == <<components, mcpApp, calls, registry, declared, processes, lastOp>>
invokeVars == <<handler, decorators, wrapped, call>>
vars == <<components, mcpApp, calls, registry, declared, processes, lastOp,
          aliasIterable, handler, decorators, wrapped, call,
          served, singleton, created, held, run, started>>
objectVars == <<singleton, created>>

None == "None"

\* The element of a one-element set. {F(x) : x \in {e}} evaluates e once, where
\* a LET would evaluate it at every use.
Only(S) == CHOOSE x \in S : TRUE

\* ------------------------------------------------------------------ bounds
MaxDecl == 3        \* declarations in one run
MaxProcess == 2     \* process(app) calls in one run

\* ------------------------------------------------------------------ text
\* Python strings that the code searches are sequences of characters.
StrDict == <<"D", "i", "c", "t">>
StrList == <<"L", "i", "s", "t">>

\* needle in hay, for two Python strings: a substring test.
Contains(needle, hay) ==
    \E i \in 1..(Len(hay) - Len(needle) + 1) :
        SubSeq(hay, i, i + Len(needle) - 1) = needle

\* ------------------------------------------------------------------ handlers
\* inspect.signature(func).return_annotation, as the object Python holds:
\*   form "class"   a class (str, dict, inspect.Signature.empty when there is none)
\*   form "alias"   a parameterized typing alias (Dict[str, Any], List[...])
\*   form "string"  a string (a quoted or postponed annotation), with its text
\* shape is the kind of type the annotation declares.
AnnStrClass ==
    [name |-> "str", form |-> "class", text |-> <<>>, shape |-> "other"]
AnnDictClass ==
    [name |-> "dict", form |-> "class", text |-> <<>>, shape |-> "mapping"]
AnnEmpty ==
    [name |-> "empty", form |-> "class", text |-> <<>>, shape |-> "other"]
AnnDictAlias ==
    [name |-> "Dict[str, Any]", form |-> "alias", text |-> <<>>, shape |-> "mapping"]
AnnListAlias ==
    [name |-> "List[Dict[str, Any]]", form |-> "alias", text |-> <<>>,
     shape |-> "sequence"]
AnnDictString ==
    [name |-> "'Dict[str, Any]'", form |-> "string",
     text |-> StrDict \o <<"[", "s", "t", "r", ",", " ", "A", "n", "y", "]">>,
     shape |-> "mapping"]
AnnListString ==
    [name |-> "'List[str]'", form |-> "string",
     text |-> StrList \o <<"[", "s", "t", "r", "]">>,
     shape |-> "sequence"]
AnnListDictString ==
    [name |-> "'List[Dict[str, Any]]'", form |-> "string",
     text |-> StrList \o <<"[">> \o StrDict
              \o <<"[", "s", "t", "r", ",", " ", "A", "n", "y", "]", "]">>,
     shape |-> "sequence"]
AnnStrString ==
    [name |-> "'str'", form |-> "string", text |-> <<"s", "t", "r">>,
     shape |-> "other"]

Annotations ==
    {AnnStrClass, AnnDictClass, AnnEmpty, AnnDictAlias, AnnListAlias,
     AnnDictString, AnnListString, AnnListDictString, AnnStrString}

\* A raw handler: its execution model, its return annotation, and whether it
\* has parameters without defaults (calling it with no argument then raises).
Handlers ==
    [mode : {"async", "sync"}, ann : Annotations, requiredParams : BOOLEAN]

\* ------------------------------------------------------------------ exceptions
\* The exception classes the handlers of this program can raise, each with the
\* classes it is an instance of (its own and its bases).
Mro(cls) ==
    CASE cls = "ConnectError" ->
            {"ConnectError", "NetworkError", "TransportError", "RequestError",
             "HTTPError", "Exception", "BaseException"}
      [] cls = "ConnectTimeout" ->
            {"ConnectTimeout", "TimeoutException", "TransportError",
             "RequestError", "HTTPError", "Exception", "BaseException"}
      [] cls = "HTTPStatusError" ->
            {"HTTPStatusError", "HTTPError", "Exception", "BaseException"}
      [] cls = "TooManyRedirects" ->
            {"TooManyRedirects", "RequestError", "HTTPError", "Exception",
             "BaseException"}
      [] cls = "ValueError" -> {"ValueError", "Exception", "BaseException"}
      [] cls = "TypeError" -> {"TypeError", "Exception", "BaseException"}
      [] cls = "RuntimeError" -> {"RuntimeError", "Exception", "BaseException"}
      [] cls = "AttributeError" ->
            {"AttributeError", "Exception", "BaseException"}
      [] cls = "CancelledError" -> {"CancelledError", "BaseException"}
      [] OTHER -> {}

NoExc == [cls |-> None, hasRequest |-> FALSE]

\* What a handler can raise: an httpx error carries its request unless it was
\* raised without one (then reading e.request raises RuntimeError).
RaisedExceptions ==
    {[cls |-> c, hasRequest |-> r] :
        c \in {"ConnectError", "ConnectTimeout"}, r \in BOOLEAN}
    \cup {[cls |-> c, hasRequest |-> TRUE] :
            c \in {"HTTPStatusError", "TooManyRedirects"}}
    \cup {[cls |-> c, hasRequest |-> FALSE] :
            c \in {"ValueError", "CancelledError"}}

\* ------------------------------------------------------------------ values
NoMsg == [template |-> "", arg |-> ""]
NoPayload == [shape |-> "none", keys |-> {}, msg |-> NoMsg]

\* What a handler returns on normal completion: the tools return a JSON text
\* with a status field, "success" or (a domain error) "error".
ReturnValues ==
    {[shape |-> "string", keys |-> {},
      msg |-> [template |-> "", arg |-> a]] : a \in {"status:success", "status:error"}}

Return(v) == [tag |-> "return", val |-> v, exc |-> NoExc]
Raise(e) == [tag |-> "raise", val |-> NoPayload, exc |-> e]
RaiseCls(c) == Raise([cls |-> c, hasRequest |-> FALSE])

\* The ways one execution of a raw handler can end.
Behaviours ==
    {Return(v) : v \in ReturnValues} \cup {Raise(e) : e \in RaisedExceptions}

\* ------------------------------------------------------------------ format_error
\* `needle in return_type` (wrappers.py:174,176). On a string it is a substring
\* test; a class is not iterable, so the test raises TypeError; a parameterized
\* typing alias is iterated where the interpreter makes it iterable (it yields
\* no string, so the test is False) and raises TypeError where it does not.
In(needle, rt) ==
    CASE rt.form = "string" ->
            IF Contains(needle, rt.text) THEN "True" ELSE "False"
      [] rt.form = "alias" -> IF aliasIterable THEN "False" ELSE "TypeError"
      [] OTHER -> "TypeError"

ErrorMapping(msg) == [shape |-> "mapping", keys |-> {"error"}, msg |-> msg]
ErrorList(msg) == [shape |-> "sequence", keys |-> {"error"}, msg |-> msg]
ErrorText(msg) == [shape |-> "string", keys |-> {}, msg |-> msg]

\* format_error(return_type, msg): the value it returns, or the TypeError that
\* the membership test raises.
format_error(return_type, msg) ==
    LET isDict == In(StrDict, return_type)
        isList == In(StrList, return_type)
    IN  IF isDict = "TypeError" THEN RaiseCls("TypeError")
        ELSE IF isDict = "True" THEN Return(ErrorMapping(msg))
        ELSE IF isList = "TypeError" THEN RaiseCls("TypeError")
        ELSE IF isList = "True" THEN Return(ErrorList(msg))
        ELSE Return(ErrorText(msg))

\* ------------------------------------------------------------------ except chain
IsInstance(exc, cls) == cls \in Mro(exc.cls)

\* A variant of the except chain with the generic request clause first.
ExceptClauseGenericFirst(exc) ==
    IF IsInstance(exc, "RequestError") THEN "RequestError"
    ELSE IF IsInstance(exc, "ConnectError") THEN "ConnectError"
    ELSE IF IsInstance(exc, "TimeoutException") THEN "TimeoutException"
    ELSE IF IsInstance(exc, "HTTPStatusError") THEN "HTTPStatusError"
    ELSE IF IsInstance(exc, "Exception") THEN "Exception"
    ELSE None

\* The except clause that handles exc: the first one, in source order, whose
\* class exc is an instance of; None when no clause matches.
ExceptClause(exc) ==
    IF IsInstance(exc, "ConnectError") THEN "ConnectError"
    ELSE IF IsInstance(exc, "TimeoutException") THEN "TimeoutException"
    ELSE IF IsInstance(exc, "HTTPStatusError") THEN "HTTPStatusError"
    ELSE IF IsInstance(exc, "RequestError") THEN "RequestError"
    ELSE IF IsInstance(exc, "Exception") THEN "Exception"
    ELSE None

\* The message each clause builds (its f-string), before format_error is called.
ClauseMessage(clause) ==
    CASE clause = "ConnectError" ->
            [template |-> "Connection error: Cannot connect to resource at ",
             arg |-> "e.request.url"]
      [] clause = "TimeoutException" ->
            [template |-> "Timeout error: Resource at ",
             arg |-> "e.request.url did not respond in time"]
      [] clause = "HTTPStatusError" ->
            [template |-> "HTTP error: Server responded with ",
             arg |-> "status_code - reason_phrase"]
      [] clause = "RequestError" ->
            [template |-> "Request error: ", arg |-> "str(e)"]
      [] clause = "Exception" ->
            [template |-> "Unexpected error: ", arg |-> "str(e)"]
      [] OTHER -> NoMsg

\* Does building the clause's message read e.request?
ReadsRequest(clause) == clause \in {"ConnectError", "TimeoutException"}

\* The try/except of async_wrapper and sync_wrapper, applied to the way the
\* wrapped call ended: [outcome, clause entered, message built].
HandleOutcome(return_type, inner) ==
    IF inner.tag = "return"
    THEN [outcome |-> inner, clause |-> None, msg |-> NoMsg]
    ELSE LET clause == ExceptClause(inner.exc)
         IN  IF clause = None
             THEN [outcome |-> inner, clause |-> None, msg |-> NoMsg]
             ELSE IF ReadsRequest(clause) /\ ~inner.exc.hasRequest
             THEN [outcome |-> RaiseCls("RuntimeError"), clause |-> clause,
                   msg |-> NoMsg]
             ELSE [outcome |-> format_error(return_type, ClauseMessage(clause)),
                   clause |-> clause, msg |-> ClauseMessage(clause)]

\* ------------------------------------------------------------------ callables
\* A callable is a raw handler under a stack of wrapper layers, innermost
\* first. target is "function", or "value" when a wrapper was put around
\* something that is not callable.
Fn(h) ==
    [tag |-> "callable", mode |-> h.mode, layers |-> <<>>, raw |-> h,
     target |-> "function", val |-> NoPayload, exc |-> NoExc,
     wlogs |-> <<>>, wruns |-> 0, reg |-> FALSE, rejected |-> FALSE]

LogRecord(layer, phase) == [layer |-> layer, phase |-> phase, level |-> "debug"]

\* The handler's own body running, as an event among the diagnostic records.
RunEvent == [layer |-> "handler", phase |-> "run", level |-> "none"]

NoTrace == [outcome |-> Return(NoPayload), logs |-> <<>>, events |-> <<>>,
            clause |-> None, msg |-> NoMsg, runs |-> 0]

\* A variant of the instrumenting layer without the finally: the record after
\* the call is written only when the call returned.
LayerResultNoFinally(f, layer, r) ==
    IF layer = "log"
    THEN [r EXCEPT !.logs = <<LogRecord(layer, "pre")>> \o r.logs
                            \o (IF r.outcome.tag = "return"
                                THEN <<LogRecord(layer, "post")>> ELSE <<>>),
                   !.events = <<LogRecord(layer, "pre")>> \o r.events
                            \o (IF r.outcome.tag = "return"
                                THEN <<LogRecord(layer, "post")>> ELSE <<>>)]
    ELSE r

\* What the layer `layer` of f makes of r, the trace of the call it wraps.
LayerResult(f, layer, r) ==
    IF layer = "handle" /\ f.target = "value"
    THEN \* inspect.signature(func) unwraps to the value
        [NoTrace EXCEPT !.outcome = RaiseCls("TypeError")]
    ELSE IF layer = "handle"
    THEN Only({[outcome |-> h.outcome,
                logs |-> r.logs,
                events |-> r.events,
                clause |-> IF r.clause # None THEN r.clause ELSE h.clause,
                msg |-> IF r.clause # None THEN r.msg ELSE h.msg,
                runs |-> r.runs] : h \in {HandleOutcome(f.raw.ann, r.outcome)}})
    ELSE \* log_function_call and the probe wrappers: a record before the
         \* call and one after it, in a finally
        [r EXCEPT !.logs = <<LogRecord(layer, "pre")>> \o r.logs
                           \o <<LogRecord(layer, "post")>>,
                  !.events = <<LogRecord(layer, "pre")>> \o r.events
                             \o <<LogRecord(layer, "post")>>]

\* One call of the callable made of f's raw handler and its first k layers,
\* when the raw handler ends as beh: the outcome, the diagnostic records in
\* order (events: with the run of the handler's body among them), the except
\* clause that handled a failure (the innermost one that did) with its
\* message, and how often the raw handler ran.
RECURSIVE CallLayers(_, _, _)
CallLayers(f, k, beh) ==
    IF k = 0
    THEN IF f.target = "function"
         THEN [outcome |-> beh, logs |-> <<>>, events |-> <<RunEvent>>,
               clause |-> None, msg |-> NoMsg, runs |-> 1]
         ELSE [NoTrace EXCEPT !.outcome = RaiseCls("TypeError")]
    ELSE IF k = 1 /\ f.target = "value"
    THEN \* func.__module__ (wrappers.py:146) or inspect.signature(func)
         \* (wrappers.py:216) of a value that is no function
        [NoTrace EXCEPT !.outcome =
            RaiseCls(IF f.layers[k] = "handle" THEN "TypeError"
                     ELSE "AttributeError")]
    ELSE Only({LayerResult(f, f.layers[k], r) : r \in {CallLayers(f, k - 1, beh)}})

Call(f, beh) == CallLayers(f, Len(f.layers), beh)

\* Calling a handler with no argument: one with required parameters raises
\* TypeError before its body runs.
NoArgBehaviour(h, beh) == IF h.requiredParams THEN RaiseCls("TypeError") ELSE beh

AddLayer(f, layer) == [f EXCEPT !.layers = Append(@, layer)]

\* log_function_call(func): a wrapper of func's execution model.
\* asyncio.iscoroutinefunction is False of a value, so a value gets the
\* blocking wrapper.
log_function_call(f) ==
    IF f.tag = "callable" THEN AddLayer(f, "log")
    ELSE [f EXCEPT !.tag = "callable", !.mode = "sync", !.layers = <<"log">>,
                   !.target = "value"]

\* A probe wrapper: records that it was entered and left around the call.
Probe(name, f) ==
    IF f.tag = "callable" THEN AddLayer(f, name)
    ELSE [f EXCEPT !.tag = "callable", !.mode = "sync", !.layers = <<name>>,
                   !.target = "value"]

\* handle_api_errors(func). For a coroutine function it returns async_wrapper.
\* Otherwise it returns sync_wrapper(): it CALLS the wrapper with no argument
\* (wrappers.py:240) and returns what that call returned, or raises what it
\* raised; beh is how the handler's body would end on that call.
handle_api_errors(f, beh) ==
    IF f.tag = "callable" /\ f.mode = "async" THEN AddLayer(f, "handle")
    ELSE LET g == IF f.tag = "callable" THEN AddLayer(f, "handle")
                  ELSE [f EXCEPT !.tag = "callable", !.mode = "sync",
                                 !.layers = <<"handle">>, !.target = "value"]
         IN  Only({[f EXCEPT !.tag = IF r.outcome.tag = "return" THEN "value"
                                     ELSE "raise",
                             !.val = r.outcome.val,
                             !.exc = r.outcome.exc,
                             !.wlogs = f.wlogs \o r.logs,
                             !.wruns = f.wruns + r.runs] :
                   r \in {Call(g, NoArgBehaviour(f.raw, beh))}})

RECURSIVE apply_decorators(_, _, _)

\* log_and_handle_errors(func) =
\* apply_decorators(handle_api_errors, log_function_call)(func)
log_and_handle_errors(f, env) ==
    apply_decorators(<<"handle_api_errors", "log_function_call">>, f, env)

\* The decorator FastMCP's own tool/resource/prompt entry point returns:
\* applied to a function it finishes the registration, or the server rejects
\* it and raises.
Register(f, env) ==
    IF env.srvOk THEN [f EXCEPT !.reg = TRUE]
    ELSE [f EXCEPT !.tag = "raise", !.rejected = TRUE,
                   !.exc = [cls |-> "RegistrationError", hasRequest |-> FALSE]]

\* The decorator PlexMCP.tool / resource / prompt returns:
\* apply_decorators(super().tool(...), log_and_handle_errors).
PlexRegister(f, env) ==
    apply_decorators(<<"register", "log_and_handle_errors">>, f, env)

\* One decorator applied to what the previous ones produced; an exception
\* raised by a decorator ends the composition. env.beh is how the handler's
\* body would end if a decorator calls it, env.srvOk whether the server
\* accepts a registration.
Decorate(deco, f, env) ==
    IF f.tag = "raise" THEN f
    ELSE CASE deco = "handle_api_errors" -> handle_api_errors(f, env.beh)
           [] deco = "log_function_call" -> log_function_call(f)
           [] deco = "log_and_handle_errors" -> log_and_handle_errors(f, env)
           [] deco = "register" -> Register(f, env)
           [] deco = "plex_register" -> PlexRegister(f, env)
           [] OTHER -> Probe(deco, f)

Reverse(s) == [i \in 1..Len(s) |-> s[Len(s) + 1 - i]]

RECURSIVE FoldDecorators(_, _, _)
FoldDecorators(decos, f, env) ==
    IF decos = <<>> THEN f
    ELSE Only({FoldDecorators(Tail(decos), g, env) :
               g \in {Decorate(Head(decos), f, env)}})

\* A variant that applies the decorators in the order given.
ApplyInGivenOrder(decos, f, env) == FoldDecorators(decos, f, env)

\* apply_decorators(*decorators)(func): for deco in reversed(decorators):
\* func = deco(func).
apply_decorators(decos, f, env) == FoldDecorators(Reverse(decos), f, env)

\* ------------------------------------------------------------------ SpecInvoke
NoHandler == [mode |-> "none", ann |-> AnnEmpty, requiredParams |-> FALSE]
NoWrapped == [Fn(NoHandler) EXCEPT !.tag = "none"]
NoCall == [done |-> FALSE, beh |-> Return(NoPayload), trace |-> NoTrace]

\* The decorator lists given to apply_decorators: each wrapper alone, the list
\* of log_and_handle_errors, the opposite nesting, and two probes.
DecoratorLists ==
    {<<"handle_api_errors">>, <<"log_function_call">>,
     <<"handle_api_errors", "log_function_call">>,
     <<"log_function_call", "handle_api_errors">>,
     <<"A", "B">>}

InvokeInit ==
    /\ aliasIterable \in BOOLEAN
    /\ handler = NoHandler
    /\ decorators = <<>>
    /\ wrapped = NoWrapped
    /\ call = NoCall

\* apply_decorators(*ds)(h) at definition time, once per handler. beh is how
\* h's body would end if the wrapping itself calls h.
Wrap ==
    /\ handler = NoHandler
    /\ \E h \in Handlers, ds \in DecoratorLists, beh \in Behaviours :
        /\ handler' = h
        /\ decorators' = ds
        /\ wrapped' = apply_decorators(ds, Fn(h), [beh |-> beh, srvOk |-> TRUE])
        /\ call' = NoCall
        /\ UNCHANGED <<aliasIterable, started, run, queueVars, served, objectVars, held>>

\* One invocation of the wrapped callable, the handler's body ending as beh.
Invoke ==
    /\ wrapped.tag = "callable"
    /\ \E beh \in Behaviours :
        call' = [done |-> TRUE, beh |-> beh, trace |-> Call(wrapped, beh)]
    /\ UNCHANGED <<aliasIterable, started, run, handler, decorators, wrapped, queueVars,
                   served, objectVars, held>>

\* ------------------------------------------------------------------ the queue
\* The servers process can be given: the PlexMCP instance run() builds
\* (main.py:232) and a plain FastMCP (the declared parameter type).
Servers == {"plex", "fastmcp"}

\* The handlers declared in this model: the tools of the repository are async
\* and annotated -> str; blocking ones with and without required parameters.
AsyncTool == [mode |-> "async", ann |-> AnnStrClass, requiredParams |-> TRUE]
SyncTool == [mode |-> "sync", ann |-> AnnStrClass, requiredParams |-> TRUE]
SyncNoArgTool == [mode |-> "sync", ann |-> AnnStrClass, requiredParams |-> FALSE]

\* What can be declared. kind is the metadata attribute the function carries
\* ("plain": none). form "dict" is what tool_metadata, resource_metadata,
\* prompt_metadata and custom_route_metadata attach (a dict); form "attrs" is
\* a metadata object with attributes, attached by hand before add_pending.
DeclInputs ==
    {[kind |-> "tool", form |-> "dict", h |-> AsyncTool],
     [kind |-> "tool", form |-> "attrs", h |-> AsyncTool],
     [kind |-> "tool", form |-> "attrs", h |-> SyncTool],
     [kind |-> "tool", form |-> "attrs", h |-> SyncNoArgTool],
     [kind |-> "resource", form |-> "dict", h |-> AsyncTool],
     [kind |-> "resource", form |-> "attrs", h |-> AsyncTool],
     [kind |-> "prompt", form |-> "dict", h |-> AsyncTool],
     [kind |-> "prompt", form |-> "attrs", h |-> AsyncTool],
     [kind |-> "route", form |-> "dict", h |-> AsyncTool],
     [kind |-> "plain", form |-> "dict", h |-> AsyncTool]}

\* The descriptor of the n-th declaration: the function object (id), its
\* metadata attribute and the metadata values given at the declaration.
Descriptor(n, in) ==
    [id |-> n, kind |-> in.kind, form |-> in.form, h |-> in.h,
     meta |-> <<"metadata", n>>]

MetadataAttr(kind) ==
    CASE kind = "tool" -> "_tool_metadata"
      [] kind = "resource" -> "_resource_metadata"
      [] kind = "prompt" -> "_prompt_metadata"
      [] kind = "route" -> "_custom_route_metadata"
      [] OTHER -> None

HasAttr(component, attr) == MetadataAttr(component.kind) = attr

\* The decorator app.tool(...) / app.resource(...) / app.prompt(...) returns.
ServerDecorator(app) == IF app = "plex" THEN "plex_register" ELSE "register"

\* Does app's entry point take the keyword arguments the call passes?
\* PlexMCP.prompt(name, description) has no tags parameter.
AcceptsCall(app, api) == ~(app = "plex" /\ api = "prompt")

NoResult ==
    [ret |-> None, exc |-> None, calls |-> <<>>, registry |-> <<>>,
     rejected |-> FALSE]

\* A variant of the branch that drops an exception raised while the server's
\* decorator is applied.
ForwardResultSwallowed(entry, f) ==
    IF f.tag = "raise"
    THEN [NoResult EXCEPT !.calls = <<entry>>]
    ELSE [NoResult EXCEPT !.calls = <<entry>>,
                          !.registry = <<[server |-> entry.server,
                                          api |-> entry.api, id |-> entry.id,
                                          fn |-> f]>>]

\* What a branch of _process_component leaves once the entry point was
\* called and the composed decorator applied, giving f: no try surrounds the
\* application (wrappers.py:64-90), so an exception it raises leaves
\* _process_component.
ForwardResult(entry, f) ==
    IF f.tag = "raise"
    THEN [NoResult EXCEPT !.ret = "raise", !.exc = f.exc.cls,
                          !.calls = <<entry>>]
    ELSE [NoResult EXCEPT !.calls = <<entry>>,
                          !.registry = <<[server |-> entry.server,
                                          api |-> entry.api, id |-> entry.id,
                                          fn |-> f]>>]

\* One branch of _process_component: component._<api>_metadata.name is read
\* (AttributeError on a dict), the entry point is called, and the decorator it
\* returns is composed with log_and_handle_errors and applied to component.
Forward(component, app, api, env) ==
    IF component.form = "dict"
    THEN [NoResult EXCEPT !.ret = "raise", !.exc = "AttributeError"]
    ELSE IF ~AcceptsCall(app, api)
    THEN [NoResult EXCEPT !.ret = "raise", !.exc = "TypeError"]
    ELSE LET entry == [server |-> app, api |-> api, id |-> component.id,
                       meta |-> component.meta]
         IN  Only({[ForwardResult(entry, f) EXCEPT !.rejected = f.rejected] :
                   f \in {apply_decorators(
                              <<ServerDecorator(app), "log_and_handle_errors">>,
                              Fn(component.h), env)}})

\* _process_component(component) with self._mcpApp = app.
ProcessComponent(component, app, env) ==
    IF app = None THEN [NoResult EXCEPT !.ret = "component"]
    ELSE IF HasAttr(component, "_tool_metadata")
    THEN Forward(component, app, "tool", env)
    ELSE IF HasAttr(component, "_resource_metadata")
    THEN Forward(component, app, "resource", env)
    ELSE IF HasAttr(component, "_prompt_metadata")
    THEN Forward(component, app, "prompt", env)
    ELSE NoResult

\* The loop of process over the copied list, from index i: it stops at the
\* first component whose processing raises. failAt is the index of the
\* component the server rejects (0: none).
RECURSIVE Flush(_, _, _, _, _, _)
Flush(comps, i, app, beh, failAt, acc) ==
    IF i > Len(comps) THEN acc
    ELSE Only({IF r.ret = "raise"
               THEN [acc EXCEPT !.calls = @ \o r.calls,
                                !.registry = @ \o r.registry,
                                !.rejected = @ \/ r.rejected,
                                !.ret = "raise", !.exc = r.exc]
               ELSE Flush(comps, i + 1, app, beh, failAt,
                          [acc EXCEPT !.calls = @ \o r.calls,
                                      !.registry = @ \o r.registry,
                                      !.rejected = @ \/ r.rejected]) :
               r \in {ProcessComponent(comps[i], app,
                                       [beh |-> beh, srvOk |-> failAt # i])}})

\* How a handler's body ends when a wrapper calls it while it is being
\* registered.
WrapBehaviours ==
    {Return([shape |-> "string", keys |-> {},
             msg |-> [template |-> "", arg |-> "status:success"]]),
     Raise([cls |-> "ValueError", hasRequest |-> FALSE])}

NoDescriptor == Descriptor(0, [kind |-> "plain", form |-> "dict", h |-> AsyncTool])

\* run() not called yet. input: the transport argument; transport: what
\* validate_transport returned; flushed: the server given to process; mode
\* and server: the transport started and the server object it serves.
NotStarted ==
    [status |-> "none", input |-> <<>>, transport |-> <<>>, flushed |-> None,
     mode |-> "none", server |-> None]

\* parameter=None of client_control_playback, and no client object at hand.
NoParameter == [given |-> FALSE, value |-> 0]

NoClient == [name |-> "none", id |-> <<>>]

\* No tool called yet. why: the test whose response was returned; action,
\* parameter, mediaType, ident: the arguments; nResults: the length of the
\* search result; count, listed: the count field and the number of items in
\* a multiple_results response; caps: the protocolCapabilities read;
\* connected: what plex.clients() answered; client: the client object the
\* tool holds.
NoRun ==
    [tool |-> "none", lib |-> FALSE, status |-> "idle", frame |-> "body",
     region |-> 0, pc |-> 0, result |-> "", exc |-> None, issued |-> <<>>,
     faults |-> 0, why |-> "", action |-> "", parameter |-> NoParameter,
     mediaType |-> "", ident |-> <<>>, nResults |-> 0, count |-> 0,
     listed |-> 0, caps |-> {}, connected |-> <<>>, client |-> NoClient]

\* No list obtained from get_pending() yet. shared: the list is the queue's
\* own list object; own: its items if it is an object of its own; expected:
\* the items its holder last saw or put there.
NoList == [taken |-> FALSE, shared |-> FALSE, own |-> <<>>, expected |-> <<>>]

NoOp ==
    [name |-> "init", app |-> None, decl |-> NoDescriptor, obj |-> 0,
     pendingBefore |-> <<>>,
     callsBefore |-> 0, appBefore |-> None, raised |-> None, returned |-> 0,
     rejected |-> FALSE]

\* A variant that keeps the first server bound.
BoundAppFirstWins(current, app) == IF current = None THEN app ELSE current

\* self._mcpApp = app (wrappers.py:54): the reference after process(app).
BoundApp(current, app) == app

\* A variant that leaves the pending list as it is.
KeptComponents(comps) == comps

\* self.components.clear() (wrappers.py:56), after the copy was taken.
ClearedComponents(comps) == <<>>

\* A variant of add that appends whatever _process_component returned.
AddedAlways(comps, d, ret) == Append(comps, d)

\* add (wrappers.py:100-105): func is appended unless _process_component
\* returned None.
AddedComponents(comps, d, ret) ==
    IF ret = None THEN comps ELSE Append(comps, d)

\* A variant of add that returns what _process_component returned: the
\* function on an Unbound queue, None (0) once it was forwarded.
ReturnedProcessed(d, ret) == IF ret = "component" THEN d.id ELSE 0

\* What a declaration hands back to its caller: add returns func on both
\* paths (wrappers.py:102, 105), add_pending returns fn (264) and the
\* metadata decorators return add_pending(func) (290, 321, 342, 372).
ReturnedRef(d, ret) == d.id

\* A variant of instance() that constructs a new object at every call.
instanceAlwaysNew(cur, n) == [obj |-> n + 1, created |-> n + 1, fresh |-> TRUE]

\* PendingMCPComponents.instance() (wrappers.py:34-41) with _instance = cur
\* (0: None) after n objects were constructed: the object returned, the
\* number constructed, and whether this call constructed it.
instance(cur, n) ==
    IF cur = 0 THEN [obj |-> n + 1, created |-> n + 1, fresh |-> TRUE]
    ELSE [obj |-> cur, created |-> n, fresh |-> FALSE]

\* The fields of the object instance() returned: those __init__ sets
\* (wrappers.py:44-45) if the call constructed it, else the current ones.
SelfComponents(inst) == IF inst.fresh THEN <<>> ELSE components

SelfApp(inst) == IF inst.fresh THEN None ELSE mcpApp

\* PendingMCPComponents.__init__ (wrappers.py:43-45).
QueueInit ==
    /\ components = <<>>
    /\ mcpApp = None
    /\ calls = <<>>
    /\ registry = <<>>
    /\ declared = 0
    /\ processes = 0
    /\ lastOp = NoOp
    /\ served = 0
    /\ singleton = 0
    /\ created = 0
    /\ held = NoList
    /\ run = NoRun
    /\ started = NotStarted

\* A declaration: tool_metadata(...)(func) and its siblings attach the
\* metadata and return add_pending(func), which calls
\* PendingMCPComponents.instance().add(func).
Declare ==
    /\ declared < MaxDecl
    /\ \E in \in DeclInputs, beh \in WrapBehaviours, srvOk \in BOOLEAN :
        \E d \in {Descriptor(declared + 1, in)},
           inst \in {instance(singleton, created)} :
        \E r \in {ProcessComponent(d, SelfApp(inst),
                                   [beh |-> beh, srvOk |-> srvOk])} :
            /\ singleton' = inst.obj
            /\ created' = inst.created
            /\ mcpApp' = SelfApp(inst)
            /\ components' = IF r.ret = "raise" THEN SelfComponents(inst)
                             ELSE AddedComponents(SelfComponents(inst), d, r.ret)
            /\ calls' = calls \o r.calls
            /\ registry' = registry \o r.registry
            /\ declared' = declared + 1
            /\ lastOp' = [name |-> "declare", app |-> None, decl |-> d,
                          obj |-> inst.obj,
                          pendingBefore |-> SelfComponents(inst),
                          callsBefore |-> Len(calls),
                          appBefore |-> SelfApp(inst),
                          raised |-> r.exc, rejected |-> r.rejected,
                          returned |-> IF r.ret = "raise" THEN 0
                                       ELSE ReturnedRef(d, r.ret)]
    /\ UNCHANGED <<processes, aliasIterable, started, run, invokeVars, served, held>>

\* PendingMCPComponents.process(app) (wrappers.py:47-58).
Process ==
    /\ processes < MaxProcess
    /\ \E app \in Servers, beh \in WrapBehaviours, failAt \in 0..Len(components) :
        \E inst \in {instance(singleton, created)} :
        \E r \in {Flush(SelfComponents(inst), 1, BoundApp(SelfApp(inst), app),
                         beh, failAt, NoResult)} :
            /\ singleton' = inst.obj
            /\ created' = inst.created
            /\ mcpApp' = BoundApp(SelfApp(inst), app)
            /\ components' = ClearedComponents(SelfComponents(inst))
            /\ calls' = calls \o r.calls
            /\ registry' = registry \o r.registry
            /\ lastOp' = [name |-> "process", app |-> app, decl |-> NoDescriptor,
                          obj |-> inst.obj,
                          pendingBefore |-> SelfComponents(inst),
                          callsBefore |-> Len(calls),
                          appBefore |-> SelfApp(inst),
                          raised |-> r.exc, rejected |-> r.rejected,
                          returned |-> 0]
    /\ processes' = processes + 1
    /\ UNCHANGED <<declared, aliasIterable, started, run, invokeVars, served, held>>

Init ==
    /\ QueueInit
    /\ aliasIterable = TRUE
    /\ handler = NoHandler
    /\ decorators = <<>>
    /\ wrapped = NoWrapped
    /\ call = NoCall

Next == Declare \/ Process

Spec == Init /\ [][Next]_vars

InitInvoke == QueueInit /\ InvokeInit

NextInvoke == Wrap \/ Invoke

SpecInvoke == InitInvoke /\ [][NextInvoke]_vars

\* ------------------------------------------------------------------ serving
\* The server calls a callable it was given at registration (a tool call
\* arriving once run() has flushed the queue and started the transport,
\* main.py:233-243); the handler's body ends as beh.
Serve ==
    /\ \E i \in 1..Len(registry), beh \in Behaviours :
        /\ registry[i].fn.tag = "callable"
        /\ served' = i
        /\ call' = [done |-> TRUE, beh |-> beh,
                    trace |-> Call(registry[i].fn, beh)]
    /\ UNCHANGED <<queueVars, aliasIterable, started, run, handler, decorators, wrapped,
                   objectVars, held>>

\* Declarations and process(app) happen at import and in run() before the
\* transport starts (main.py:233); serving follows.
StartupDeclare == served = 0 /\ Declare

StartupProcess == served = 0 /\ Process

NextServe == StartupDeclare \/ StartupProcess \/ Serve

SpecServe == Init /\ [][NextServe]_vars

\* ------------------------------------------------------------------ get_pending
\* get_pending() (wrappers.py:107-109): return self.components, the list
\* object of the queue itself, not a copy.
get_pending(comps) ==
    [taken |-> TRUE, shared |-> TRUE, own |-> <<>>, expected |-> comps]

\* The items of the list the caller holds.
HeldItems == IF held.shared THEN components ELSE held.own

\* PendingMCPComponents.instance().get_pending().
GetPending ==
    /\ \E inst \in {instance(singleton, created)} :
        /\ singleton' = inst.obj
        /\ created' = inst.created
        /\ components' = SelfComponents(inst)
        /\ mcpApp' = SelfApp(inst)
        /\ held' = get_pending(SelfComponents(inst))
        /\ lastOp' = [NoOp EXCEPT !.name = "get_pending", !.obj = inst.obj,
                                  !.pendingBefore = SelfComponents(inst)]
    /\ UNCHANGED <<calls, registry, declared, processes, aliasIterable, started, run,
                   invokeVars, served>>

\* list.pop() and list.clear() on items.
ListOps == {"pop", "clear"}

Mutated(items, op) ==
    IF op = "pop" THEN SubSeq(items, 1, Len(items) - 1) ELSE <<>>

\* The holder of a list obtained from get_pending() changes it in place.
MutateReturned ==
    /\ held.taken
    /\ HeldItems # <<>>
    /\ \E op \in ListOps :
        \E new \in {Mutated(HeldItems, op)} :
            /\ components' = IF held.shared THEN new ELSE components
            /\ held' = [held EXCEPT !.own = IF held.shared THEN @ ELSE new,
                                    !.expected = new]
    /\ lastOp' = [NoOp EXCEPT !.name = "mutate", !.obj = singleton,
                              !.pendingBefore = components]
    /\ UNCHANGED <<mcpApp, calls, registry, declared, processes,
                   aliasIterable, started, run, invokeVars, served, objectVars>>

NextPending == Declare \/ Process \/ GetPending \/ MutateReturned

SpecPending == Init /\ [][NextPending]_vars

\* ------------------------------------------------------------------ client tools
\* The tools of client.py. Each is one outer try whose except Exception
\* returns a JSON error; inside it, inner try statements (regions, numbered
\* from 1; region 0 is the outer try alone) guard single steps.
Tools ==
    {"client_list", "client_get_details", "client_get_timelines",
     "get_active_clients", "client_start_playback", "client_control_playback",
     "client_navigate", "client_set_streams"}

\* Exceptions the SDK raises: plexapi's NotFound and BadRequest, the
\* ConnectionError of requests, and the AttributeError of reading an
\* attribute an SDK object does not have; subclasses of Exception all.
SdkExceptions == {"NotFound", "BadRequest", "ConnectionError", "AttributeError"}

PlexApiExceptions == {"NotFound", "BadRequest"}

\* A variant in which `except Exception` stands for the SDK's own base class.
CatchesPlexOnly(catch, e) ==
    \/ catch = "bare"
    \/ catch = "Exception" /\ e \in PlexApiExceptions
    \/ catch = e

\* Does an except clause of kind catch (a class name, or "bare" for
\* `except:`) take exception e?
Catches(catch, e) ==
    \/ catch = "bare"
    \/ catch = "Exception" /\ e \in SdkExceptions
    \/ catch = e

\* Instructions. Sdk: a call or attribute read on the SDK, which may raise.
\* Check: a test on data that either returns json.dumps({"status": s, ...})
\* or goes on; building the response reads `reads` from the SDK ("": nothing).
\* Ret: return json.dumps({"status": s, ...}). region is the innermost try
\* the instruction stands in.
\* Test: the same with the test named, decided by the arguments and by what
\* the SDK answered. SdkIf: an SDK call made only if the named test holds.
Sdk(name, r) ==
    [op |-> "sdk", name |-> name, region |-> r, status |-> "", test |-> ""]

SdkIf(test, name, r) ==
    [op |-> "sdk", name |-> name, region |-> r, status |-> "", test |-> test]

Check(s, r, reads) ==
    [op |-> "check", name |-> reads, region |-> r, status |-> s,
     test |-> "data"]

Test(test, s, r, reads) ==
    [op |-> "check", name |-> reads, region |-> r, status |-> s,
     test |-> test]

Ret(s, r) ==
    [op |-> "return", name |-> "", region |-> r, status |-> s, test |-> ""]

Region(catch, parent, block) ==
    [catch |-> catch, parent |-> parent, handler |-> block]

\* except NotFound after plex.client(...): the fallback search among the
\* clients already listed (client_get_details, client_get_timelines).
ListedFallback ==
    Region("NotFound", 0,
           <<Sdk("client.machineIdentifier", 0), Check("error", 0, "")>>)

\* The same in the tools that act on a client: plex.clients() is called in
\* the handler and c.client_machine_identifier read.
ActingFallback ==
    Region("NotFound", 0,
           <<Sdk("plex.clients", 0),
             SdkIf("any_connected", "client.client_machine_identifier", 0),
             Test("no_match", "error", 0, "")>>)

\* The same in client_set_streams, whose filter compares the requested
\* identifier with itself (client.py:1264-1268).
StreamsFallback ==
    Region("NotFound", 0,
           <<Sdk("plex.clients", 0), Test("no_clients", "error", 0, "")>>)

\* except Exception as e: return json.dumps({"status": "error", ...}).
ReturnsError == Region("Exception", 0, <<Ret("error", 0)>>)

ToolRegions(tool) ==
    CASE tool = "client_get_details" -> <<ListedFallback>>
      [] tool = "client_get_timelines" ->
            <<ListedFallback,
              Region("bare", 0,
                     <<Sdk("session.player", 0),
                       Check("success", 0, "client.title"),
                       Sdk("client.title", 0), Ret("warning", 0)>>)>>
      [] tool = "client_start_playback" ->
            <<ReturnsError, ActingFallback, ReturnsError>>
      [] tool = "client_control_playback" ->
            <<ActingFallback, ReturnsError, Region("bare", 2, <<>>)>>
      [] tool = "client_navigate" -> <<ActingFallback, ReturnsError>>
      [] tool = "client_set_streams" ->
            <<StreamsFallback,
              Region("bare", 0, <<Sdk("client.title", 0), Ret("error", 0)>>),
              ReturnsError>>
      [] OTHER -> <<>>

\* A variant of client_control_playback that looks the client up before it
\* validates its arguments.
ControlBodyLookupFirst ==
    <<Sdk("connect_to_plex", 0),
      Sdk("plex.client", 1),
      Test("invalid_action", "error", 0, ""),
      Test("needs_parameter", "error", 0, ""),
      Test("invalid_media_type", "error", 0, ""),
      Sdk("client.protocolCapabilities", 0),
      Test("lacks_playback", "error", 0, "client.title"),
      Test("volume_none", "error", 2, ""),
      Test("volume_range", "error", 2, ""),
      SdkIf("seeks_relative", "client.timeline", 2),
      Sdk("client.command", 2),
      Sdk("client.timeline", 3), Sdk("timeline.state", 3),
      Sdk("client.title", 2), Ret("success", 2)>>

\* client_control_playback (client.py:857-1019): validation of action,
\* parameter and media type, the client lookup, the capability test, then
\* inside the inner try the action (seekForward and seekBack read
\* client.timeline first; setVolume tests its parameter) and the timeline.
ControlBody ==
    <<Sdk("connect_to_plex", 0),
      Test("invalid_action", "error", 0, ""),
      Test("needs_parameter", "error", 0, ""),
      Test("invalid_media_type", "error", 0, ""),
      Sdk("plex.client", 1),
      Sdk("client.protocolCapabilities", 0),
      Test("lacks_playback", "error", 0, "client.title"),
      Test("volume_none", "error", 2, ""),
      Test("volume_range", "error", 2, ""),
      SdkIf("seeks_relative", "client.timeline", 2),
      Sdk("client.command", 2),
      Sdk("client.timeline", 3), Sdk("timeline.state", 3),
      Sdk("client.title", 2), Ret("success", 2)>>

\* The body of a tool, in program order. lib: client_start_playback was given
\* a library name.
ToolBody(tool, lib) ==
    CASE tool = "client_list" ->
            <<Sdk("connect_to_plex", 0), Sdk("plex.clients", 0),
              Sdk("plex.sessions", 0), Sdk("session.player", 0),
              Sdk("client.machineIdentifier", 0), Check("success", 0, ""),
              Sdk("client.title", 0), Ret("success", 0)>>
      [] tool = "client_get_details" ->
            <<Sdk("connect_to_plex", 0), Sdk("plex.clients", 0),
              Sdk("plex.sessions", 0), Sdk("session.player", 0),
              Sdk("plex.client", 1),
              Sdk("client.title", 0), Ret("success", 0)>>
      [] tool = "client_get_timelines" ->
            <<Sdk("connect_to_plex", 0), Sdk("plex.clients", 0),
              Sdk("plex.sessions", 0), Sdk("session.player", 0),
              Sdk("plex.client", 1),
              Sdk("client.timeline", 2), Sdk("session.player", 2),
              Check("success", 2, "client.title"),
              Check("info", 2, "client.title"),
              Sdk("timeline.state", 2), Sdk("client.title", 2),
              Ret("success", 2)>>
      [] tool = "get_active_clients" ->
            <<Sdk("connect_to_plex", 0), Sdk("plex.sessions", 0),
              Check("success", 0, ""), Sdk("session.player", 0),
              Sdk("player.title", 0), Ret("success", 0)>>
      [] tool = "client_start_playback" ->
            <<Sdk("connect_to_plex", 0)>>
            \o (IF lib THEN <<Sdk("plex.library.section", 1),
                              Sdk("library.search", 1)>>
                ELSE <<Sdk("plex.search", 0)>>)
            \o <<Test("no_results", "error", 0, ""),
                 Test("multiple_results", "multiple_results", 0, "media.type"),
                 Sdk("plex.client", 2),
                 Sdk("media.year", 0),
                 Sdk("client.playMedia", 3), Sdk("client.title", 3),
                 Ret("success", 3)>>
      [] tool = "client_control_playback" -> ControlBody
      [] tool = "client_navigate" ->
            <<Sdk("connect_to_plex", 0),
              Test("invalid_action", "error", 0, ""),
              Sdk("plex.client", 1),
              Sdk("client.protocolCapabilities", 0),
              Test("lacks_navigation", "error", 0, "client.title"),
              Sdk("client.navigate", 2), Sdk("client.title", 2),
              Ret("success", 2)>>
      [] tool = "client_set_streams" ->
            <<Sdk("connect_to_plex", 0), Check("error", 0, ""),
              Sdk("plex.client", 1),
              Sdk("client.timeline", 2), Sdk("plex.sessions", 2),
              Sdk("session.player", 2), Check("error", 2, "client.title"),
              Sdk("client.setStream", 3), Sdk("client.title", 3),
              Ret("success", 3)>>
      [] OTHER -> <<>>

\* Is region q the region c or nested in it?
RECURSIVE Within(_, _, _)
Within(regions, q, c) ==
    IF q = c THEN TRUE
    ELSE IF q = 0 THEN FALSE
    ELSE Within(regions, regions[q].parent, c)

\* The first instruction after the try statement of region c.
ResumePc(body, regions, c) ==
    1 + Only({i \in 1..Len(body) :
                /\ Within(regions, body[i].region, c)
                /\ \A j \in (i + 1)..Len(body) :
                      ~Within(regions, body[j].region, c)})

\* The innermost try, from region r outwards, whose except clause takes e;
\* 0: the outer `except Exception`; -1: none, e leaves the tool.
RECURSIVE CatchingRegion(_, _, _)
CatchingRegion(regions, r, e) ==
    IF r = 0 THEN (IF Catches("Exception", e) THEN 0 ELSE -1)
    ELSE IF Catches(regions[r].catch, e) THEN r
    ELSE CatchingRegion(regions, regions[r].parent, e)

\* The instructions the call is executing and the current one.
Code(r) ==
    IF r.frame = "body" THEN ToolBody(r.tool, r.lib)
    ELSE ToolRegions(r.tool)[r.region].handler

Cur(r) == Code(r)[r.pc]

Returned(r, s) == [r EXCEPT !.status = "returned", !.result = s]

\* Control reaches index pc of the body; past its end the function returns
\* None.
EnterBody(r, pc) ==
    IF pc > Len(ToolBody(r.tool, r.lib)) THEN Returned(r, "None")
    ELSE [r EXCEPT !.frame = "body", !.region = 0, !.pc = pc]

\* Control enters the except block of region c.
EnterHandler(r, c) ==
    IF ToolRegions(r.tool)[c].handler = <<>>
    THEN EnterBody(r, ResumePc(ToolBody(r.tool, r.lib), ToolRegions(r.tool), c))
    ELSE [r EXCEPT !.frame = "handler", !.region = c, !.pc = 1]

\* The current instruction completed without returning.
Advance(r) ==
    IF r.frame = "body" THEN EnterBody(r, r.pc + 1)
    ELSE IF r.pc + 1 > Len(Code(r))
    THEN EnterBody(r, ResumePc(ToolBody(r.tool, r.lib), ToolRegions(r.tool),
                               r.region))
    ELSE [r EXCEPT !.pc = r.pc + 1]

\* The current instruction raised e.
Throw(r, e) ==
    Only({IF c = -1 THEN [r EXCEPT !.status = "raised", !.exc = e]
          ELSE IF c = 0 THEN Returned([r EXCEPT !.exc = e], "error")
          ELSE EnterHandler([r EXCEPT !.exc = e], c) :
          c \in {CatchingRegion(ToolRegions(r.tool), Cur(r).region, e)}})

Outcomes == {"ok"} \cup SdkExceptions

\* ---- arguments and SDK answers
ValidPlaybackActions ==
    {"play", "pause", "stop", "skipNext", "skipPrevious", "stepForward",
     "stepBack", "seekTo", "seekForward", "seekBack", "mute", "unmute",
     "setVolume"}

ValidNavigationActions ==
    {"moveUp", "moveDown", "moveLeft", "moveRight", "select", "back", "home",
     "contextMenu"}

ValidMediaTypes == {"video", "music", "photo"}

ActingTools ==
    {"client_start_playback", "client_control_playback", "client_navigate",
     "client_set_streams"}

\* The volume range of setVolume (client.py:980) and the number of items a
\* multiple_results response lists (client.py:666).
MinVolume == 0
MaxVolume == 100
MaxListed == 10

ActionInputs(tool) ==
    CASE tool = "client_control_playback" -> ValidPlaybackActions \cup {"rewind"}
      [] tool = "client_navigate" -> ValidNavigationActions \cup {"rewind"}
      [] OTHER -> {""}

ParameterInputs(tool) ==
    IF tool = "client_control_playback"
    THEN {NoParameter}
         \cup {[given |-> TRUE, value |-> v] :
                 v \in {MinVolume - 1, MinVolume, MaxVolume, MaxVolume + 1}}
    ELSE {NoParameter}

MediaTypeInputs(tool) ==
    IF tool = "client_control_playback" THEN ValidMediaTypes \cup {"tv"}
    ELSE {""}

\* The requested client identifier, and the client objects of the server:
\* the one plex.client(identifier) finds, a connected one whose identifier
\* contains the requested one, and a connected one whose identifier does not.
Requested == <<"a", "b">>

ExactClient == [name |-> "exact", id |-> <<"a", "b">>]
MatchingClient == [name |-> "matching", id |-> <<"x", "a", "b">>]
OtherClient == [name |-> "other", id |-> <<"z", "z">>]

\* What plex.clients() may answer after plex.client(identifier) raised
\* NotFound.
ConnectedLists ==
    {<<>>, <<MatchingClient>>, <<OtherClient>>,
     <<OtherClient, MatchingClient>>, <<MatchingClient, OtherClient>>}

ResultCounts == {0, 1, 2, MaxListed, MaxListed + 1}

CapabilitySets == SUBSET {"playback", "navigation"}

\* What the run knows once the SDK call `name` has answered.
SdkAnswers(r, name) ==
    IF r.tool \notin ActingTools THEN {r}
    ELSE CASE name \in {"plex.search", "library.search"} ->
                {[r EXCEPT !.nResults = n] : n \in ResultCounts}
           [] name = "plex.client" -> {[r EXCEPT !.client = ExactClient]}
           [] name = "plex.clients" ->
                {[r EXCEPT !.connected = cs] : cs \in ConnectedLists}
           [] name = "client.protocolCapabilities" ->
                {[r EXCEPT !.caps = cs] : cs \in CapabilitySets}
           [] OTHER -> {r}

\* A variant of the range test without the lower end.
VolumeAboveMaxOnly(v) == v > MaxVolume

\* parameter < 0 or parameter > 100 (client.py:980).
VolumeOutOfRange(v) == v < MinVolume \/ v > MaxVolume

\* A variant of the capability test that lets every client pass.
LacksNothing(caps, cap) == FALSE

\* "playback" not in client.protocolCapabilities (client.py:926, 1136).
Lacks(caps, cap) == cap \notin caps

\* The filter of the fallback in the acting tools:
\* client_machine_identifier in c.client_machine_identifier.
IdentifierFilter(ident, c) == Contains(ident, c.id)

\* The filter of client_set_streams (client.py:1267):
\* client_machine_identifier in client_machine_identifier.
StreamsFilter(ident, c) == Contains(ident, ident)

Filtered(r) ==
    IF r.tool = "client_set_streams"
    THEN SelectSeq(r.connected, LAMBDA c : StreamsFilter(r.ident, c))
    ELSE SelectSeq(r.connected, LAMBDA c : IdentifierFilter(r.ident, c))

\* A variant that lists every result.
ListedAll(n) == n

\* results[:10] (client.py:665-667).
Listed(n) == IF n > MaxListed THEN MaxListed ELSE n

\* The tests of the tools, on the arguments and on what the SDK answered.
TestHolds(test, r) ==
    CASE test = "invalid_action" ->
            IF r.tool = "client_navigate"
            THEN r.action \notin ValidNavigationActions
            ELSE r.action \notin ValidPlaybackActions
      [] test = "needs_parameter" ->
            r.action \in {"seekTo", "setVolume"} /\ ~r.parameter.given
      [] test = "invalid_media_type" -> r.mediaType \notin ValidMediaTypes
      [] test = "lacks_playback" -> Lacks(r.caps, "playback")
      [] test = "lacks_navigation" -> Lacks(r.caps, "navigation")
      [] test = "volume_none" ->
            r.action = "setVolume" /\ ~r.parameter.given
      [] test = "volume_range" ->
            /\ r.action = "setVolume"
            /\ r.parameter.given
            /\ VolumeOutOfRange(r.parameter.value)
      [] test = "seeks_relative" -> r.action \in {"seekForward", "seekBack"}
      [] test = "no_results" -> r.nResults = 0
      [] test = "multiple_results" -> r.nResults > 1
      [] test = "any_connected" -> r.connected # <<>>
      [] test \in {"no_match", "no_clients"} -> Filtered(r) = <<>>
      [] OTHER -> FALSE

\* What a test that lets the tool go on leaves behind: the fallback takes the
\* first client that passed the filter.
TestPassed(test, r) ==
    IF test \in {"no_match", "no_clients"}
    THEN [r EXCEPT !.client = Head(Filtered(r))]
    ELSE r

\* What the response of a test reports.
TestResponse(test, r) ==
    IF test = "multiple_results"
    THEN [r EXCEPT !.why = test, !.count = r.nResults,
                   !.listed = Listed(r.nResults)]
    ELSE [r EXCEPT !.why = test]

\* The server or a test awaits a tool. A tool keeps nothing from one call to
\* the next (its variables are locals), so every call starts from here.
CallTool ==
    /\ run.status = "idle"
    /\ \E t \in Tools, lib \in BOOLEAN :
        /\ lib => t = "client_start_playback"
        /\ \E a \in ActionInputs(t), p \in ParameterInputs(t),
              m \in MediaTypeInputs(t) :
            run' = [NoRun EXCEPT !.tool = t, !.lib = lib,
                                 !.status = "running", !.pc = 1,
                                 !.action = a, !.parameter = p,
                                 !.mediaType = m,
                                 !.ident = IF t \in ActingTools THEN Requested
                                           ELSE <<>>]
    /\ UNCHANGED <<queueVars, aliasIterable, started, invokeVars, served, objectVars,
                   held>>

\* One call or attribute read on the SDK, which answers or raises; a
\* conditional one is skipped when its condition does not hold.
SdkStep ==
    /\ run.status = "running"
    /\ Cur(run).op = "sdk"
    /\ IF Cur(run).test # "" /\ ~TestHolds(Cur(run).test, run)
       THEN run' = Advance(run)
       ELSE \E out \in Outcomes :
            \E r \in {[run EXCEPT !.issued = Append(@, Cur(run).name)]} :
                IF out = "ok"
                THEN \E a \in SdkAnswers(r, Cur(run).name) : run' = Advance(a)
                ELSE run' = Throw([r EXCEPT !.faults = @ + 1], out)
    /\ UNCHANGED <<queueVars, aliasIterable, started, invokeVars, served, objectVars,
                   held>>

\* A test on the data at hand: return a response now, or go on. Building
\* the response may read the SDK, which may raise.
CheckStep ==
    /\ run.status = "running"
    /\ Cur(run).op = "check"
    /\ \E taken \in BOOLEAN, out \in Outcomes :
        /\ Cur(run).test # "data" => taken = TestHolds(Cur(run).test, run)
        /\ (~taken \/ Cur(run).name = "") => out = "ok"
        /\ \E r \in {IF taken /\ Cur(run).name # ""
                     THEN [run EXCEPT !.issued = Append(@, Cur(run).name)]
                     ELSE run} :
            run' = IF ~taken THEN Advance(TestPassed(Cur(run).test, run))
                   ELSE IF out = "ok"
                   THEN Returned(TestResponse(Cur(run).test, r),
                                 Cur(run).status)
                   ELSE Throw([r EXCEPT !.faults = @ + 1], out)
    /\ UNCHANGED <<queueVars, aliasIterable, started, invokeVars, served, objectVars,
                   held>>

ReturnStep ==
    /\ run.status = "running"
    /\ Cur(run).op = "return"
    /\ run' = Returned(run, Cur(run).status)
    /\ UNCHANGED <<queueVars, aliasIterable, started, invokeVars, served, objectVars,
                   held>>

NextClient == CallTool \/ SdkStep \/ CheckStep \/ ReturnStep

SpecClient == Init /\ [][NextClient]_vars

\* ------------------------------------------------------------------ run
\* Transport strings, as sequences of characters.
Stdio == <<"s", "t", "d", "i", "o">>
Sse == <<"s", "s", "e">>

\* The argument's declared default (main.py:185).
DefaultTransport == <<"S", "T", "D", "I", "O">>

TransportInputs ==
    {Stdio, DefaultTransport, <<"S", "t", "d", "i", "o">>,
     Sse, <<"S", "S", "E">>, <<"S", "s", "e">>, <<"h", "t", "t", "p">>}

LowerChar(c) ==
    CASE c = "S" -> "s" [] c = "T" -> "t" [] c = "D" -> "d" [] c = "I" -> "i"
      [] c = "O" -> "o" [] c = "E" -> "e" [] OTHER -> c

\* str.lower().
Lower(t) == [i \in 1..Len(t) |-> LowerChar(t[i])]

\* validate_transport (main.py:144-147): the lowered string is tested, the
\* string itself returned.
validate_transport(t) ==
    IF Lower(t) \notin {Stdio, Sse} THEN [ok |-> FALSE, value |-> <<>>]
    ELSE [ok |-> TRUE, value |-> t]

\* The server object the name mcp is bound to when main.py is imported
\* (main.py:23); app is constructed later, in run (main.py:232).
ModuleMcp == "module_mcp"

\* The PlexMCP instance run() constructs.
RunApp == "plex"

\* The branch of run (main.py:235-243): the transport started and the server
\* object it serves (app._mcp_server is the protocol server inside app).
Dispatch(transport, app) ==
    IF transport = Stdio THEN [mode |-> "stdio", server |-> ModuleMcp]
    ELSE [mode |-> "sse", server |-> app]

\* typer parses the argument with validate_transport and calls run
\* (main.py:178-243): app = PlexMCP(...), process(app), then the transport.
Run ==
    /\ started.status = "none"
    /\ \E t \in TransportInputs, beh \in WrapBehaviours,
          failAt \in 0..Len(components) :
        \E v \in {validate_transport(t)}, inst \in {instance(singleton, created)} :
        \E r \in {Flush(SelfComponents(inst), 1, BoundApp(SelfApp(inst), RunApp),
                         beh, failAt, NoResult)} :
            IF ~v.ok
            THEN /\ started' = [NotStarted EXCEPT !.status = "rejected",
                                                  !.input = t]
                 /\ lastOp' = [NoOp EXCEPT !.name = "run",
                                           !.raised = "BadParameter"]
                 /\ UNCHANGED <<components, mcpApp, calls, registry,
                                processes, objectVars>>
            ELSE /\ singleton' = inst.obj
                 /\ created' = inst.created
                 /\ mcpApp' = BoundApp(SelfApp(inst), RunApp)
                 /\ components' = ClearedComponents(SelfComponents(inst))
                 /\ calls' = calls \o r.calls
                 /\ registry' = registry \o r.registry
                 /\ processes' = processes + 1
                 /\ lastOp' = [name |-> "run", app |-> RunApp,
                               decl |-> NoDescriptor, obj |-> inst.obj,
                               pendingBefore |-> SelfComponents(inst),
                               callsBefore |-> Len(calls),
                               appBefore |-> SelfApp(inst),
                               raised |-> r.exc, rejected |-> r.rejected,
                               returned |-> 0]
                 /\ started' =
                        IF r.ret = "raise"
                        THEN [NotStarted EXCEPT !.status = "failed",
                                                !.input = t,
                                                !.transport = v.value,
                                                !.flushed = RunApp]
                        ELSE [status |-> "serving", input |-> t,
                              transport |-> v.value, flushed |-> RunApp,
                              mode |-> Dispatch(v.value, RunApp).mode,
                              server |-> Dispatch(v.value, RunApp).server]
    /\ UNCHANGED <<declared, aliasIterable, invokeVars, served, held, run>>

NextRun == Declare \/ Run

SpecRun == Init /\ [][NextRun]_vars

\* ================================================================== claims
\* ------------------------------------------------------------------ helpers
\* The payload shape the declared return shape calls for.
ShapeFor(ann) ==
    CASE ann.shape = "mapping" -> "mapping"
      [] ann.shape = "sequence" -> "sequence"
      [] OTHER -> "string"

HasLayer(f, layer) == \E i \in 1..Len(f.layers) : f.layers[i] = layer

\* The ids of the descriptors forwarded after the first n registration calls.
ForwardedSince(n) == [i \in 1..(Len(calls) - n) |-> calls[n + i].id]

Ids(comps) == [i \in 1..Len(comps) |-> comps[i].id]

\* A declaration carries metadata of one of the four kinds.
IsDeclaration(d) == d.kind \in {"tool", "resource", "prompt", "route"}

CallsFor(id) == {i \in 1..Len(calls) : calls[i].id = id}

Pending(id) == \E i \in 1..Len(components) : components[i].id = id

\* ------------------------------------------------------------------ C1
\* C1: whenever a handler wrapped by handle_api_errors raises, the wrapped
\* call returns a value of the handler's declared shape that carries a
\* non-empty message; it raises nothing.
C1_NormalizesEveryError ==
    (call.done /\ decorators = <<"handle_api_errors">>
               /\ call.beh.tag = "raise")
    => /\ call.trace.outcome.tag = "return"
       /\ call.trace.outcome.val.shape = ShapeFor(handler.ann)
       /\ call.trace.outcome.val.msg.template # ""

\* ------------------------------------------------------------------ C2
\* C2: a process(server) on an Unbound queue forwards the pending
\* declarations to the server's registration API in declaration order, each
\* exactly once.
C2_FlushIsFifo ==
    (lastOp.name = "process" /\ lastOp.appBefore = None
        /\ \A i \in 1..Len(lastOp.pendingBefore) :
              IsDeclaration(lastOp.pendingBefore[i]))
    => ForwardedSince(lastOp.callsBefore) = Ids(lastOp.pendingBefore)

\* ------------------------------------------------------------------ C3
\* C3: after k declarations through tool_metadata on an Unbound queue the
\* pending list has length k; after process(server) it is empty, process has
\* returned, and the tool registration API was invoked exactly once per
\* declared tool, with that tool's metadata.
DeclaredByToolMetadata(d) == d.kind = "tool" /\ d.form = "dict"

C3_ToolsFlushedOnce ==
    /\ (mcpApp = None /\ lastOp.name # "process") => Len(components) = declared
    /\ (lastOp.name = "process" /\ lastOp.appBefore = None
          /\ \A i \in 1..Len(lastOp.pendingBefore) :
                DeclaredByToolMetadata(lastOp.pendingBefore[i]))
       => /\ lastOp.raised = None
          /\ Len(components) = 0
          /\ \A i \in 1..Len(lastOp.pendingBefore) :
                \E j \in 1..Len(calls) :
                    /\ CallsFor(lastOp.pendingBefore[i].id) = {j}
                    /\ calls[j].api = "tool"
                    /\ calls[j].server = lastOp.app
                    /\ calls[j].meta = lastOp.pendingBefore[i].meta

\* ------------------------------------------------------------------ C4
\* C4: a declaration made on a Bound queue has been forwarded to the server's
\* registration API when declare returns, and is not pending.
C4_BoundDeclareForwards ==
    (lastOp.name = "declare" /\ lastOp.appBefore # None
        /\ IsDeclaration(lastOp.decl))
    => /\ lastOp.raised = None
       /\ ForwardedSince(lastOp.callsBefore) = <<lastOp.decl.id>>
       /\ calls[Len(calls)].server = lastOp.appBefore
       /\ ~Pending(lastOp.decl.id)

\* ------------------------------------------------------------------ C5
\* C5: across declare and process calls, each declared descriptor is
\* forwarded to the registration API at most once, and a forwarded descriptor
\* is not in the pending queue.
C5_ForwardedAtMostOnce ==
    \A id \in 1..declared :
        /\ Cardinality(CallsFor(id)) <= 1
        /\ CallsFor(id) # {} => ~Pending(id)

\* A second process has run, after a flush and a Bound declaration each
\* forwarded a descriptor.
C5_Witness ==
    /\ processes = 2
    /\ Len(calls) >= 2
    /\ \E i \in 1..Len(calls) : calls[i].id = 1
    /\ declared = 3

\* ------------------------------------------------------------------ C6
\* C6 (as stated): once set, the bound server reference is never cleared or
\* replaced; a second process(server2) leaves it pointing at the first.
C6_NeverReplaced ==
    lastOp.appBefore # None => mcpApp = lastOp.appBefore

\* C6 (amended): once set, the bound server reference is never cleared, and a
\* declaration leaves it alone; every process(server) sets it to the server it
\* was given, so a second process(server2) replaces the first server.
C6_SetByEachProcess ==
    /\ lastOp.appBefore # None => mcpApp # None
    /\ lastOp.name = "process" => mcpApp = lastOp.app
    /\ lastOp.name = "declare" => mcpApp = lastOp.appBefore

C6_Witness ==
    /\ lastOp.name = "process"
    /\ lastOp.appBefore = "plex"
    /\ lastOp.app = "fastmcp"
    /\ mcpApp = "fastmcp"

\* ------------------------------------------------------------------ C7
\* The layer a decorator adds to a callable.
LayerOf(deco) ==
    CASE deco = "handle_api_errors" -> "handle"
      [] deco = "log_function_call" -> "log"
      [] OTHER -> deco

\* C7 (as stated): apply_decorators(A, B)(H) is B(A(H)), the first wrapper
\* innermost and the last outermost, so that log_and_handle_errors puts the
\* instrumenter around the error-normalized handler.
C7_LastIsOutermost ==
    (wrapped.tag = "callable" /\ Len(decorators) = 2)
    => wrapped.layers = <<LayerOf(decorators[1]), LayerOf(decorators[2])>>

\* C7 (amended): apply_decorators(A, B)(H) is A(B(H)), the first wrapper
\* outermost and the last innermost: a call enters A, then B, then H. So
\* log_and_handle_errors(H) is handle_api_errors(log_function_call(H)): the
\* error normalizer is applied last, to the instrumented handler (for a
\* blocking H that application already calls the instrumented handler).
C7_FirstIsOutermost ==
    /\ (wrapped.tag = "callable" /\ wrapped.target = "function"
          /\ Len(decorators) = 2)
       => wrapped.layers = <<LayerOf(decorators[2]), LayerOf(decorators[1])>>
    /\ (call.done /\ decorators = <<"A", "B">>)
       => call.trace.logs = <<LogRecord("A", "pre"), LogRecord("B", "pre"),
                              LogRecord("B", "post"), LogRecord("A", "post")>>
    /\ (decorators = <<"handle_api_errors", "log_function_call">>
          /\ handler.mode = "sync")
       => /\ wrapped.tag \in {"value", "raise"}
          /\ wrapped.wlogs = <<LogRecord("log", "pre"), LogRecord("log", "post")>>

C7_Witness ==
    /\ call.done
    /\ decorators = <<"handle_api_errors", "log_function_call">>
    /\ wrapped.layers = <<"log", "handle">>
    /\ call.trace.logs = <<LogRecord("log", "pre"), LogRecord("log", "post")>>

\* ------------------------------------------------------------------ C8
\* C8: handle_api_errors(H) and log_function_call(H) are callables of H's
\* execution model, for a blocking and for a suspending H.
C8_KeepsExecutionModel ==
    (handler # NoHandler
        /\ decorators \in {<<"handle_api_errors">>, <<"log_function_call">>})
    => /\ wrapped.tag = "callable"
       /\ wrapped.mode = handler.mode

\* ------------------------------------------------------------------ C9
\* C9: the error payload the normalizer returns is the mapping
\* {"error": message} when the declared return shape is a mapping, a
\* one-element sequence of that mapping when it is a sequence, and the
\* message itself otherwise.
C9_PayloadFollowsShape ==
    (call.done /\ decorators = <<"handle_api_errors">>
        /\ call.trace.clause # None /\ call.trace.outcome.tag = "return")
    => /\ call.trace.outcome.val.shape = ShapeFor(handler.ann)
       /\ call.trace.outcome.val.msg = call.trace.msg
       /\ call.trace.outcome.val.keys =
              IF ShapeFor(handler.ann) = "string" THEN {} ELSE {"error"}

\* ------------------------------------------------------------------ C10
\* The classes of the claim, most specific first: connectivity, timeout,
\* upstream status, generic request, unexpected.
ClassOrder ==
    <<"ConnectError", "TimeoutException", "HTTPStatusError", "RequestError",
      "Exception">>

ClassesOf(exc) == {i \in 1..Len(ClassOrder) : ClassOrder[i] \in Mro(exc.cls)}

Earliest(S) == CHOOSE i \in S : \A j \in S : i <= j

\* C10: a failure raised under the error normalizer is handled as the
\* earliest class, in the order above, that it belongs to (a failure of none
\* of them propagates); the message built for it has that class's template,
\* which is the message of the payload when one is returned; and the five
\* templates are pairwise distinct.
C10_FirstMatchWins ==
    /\ (call.done /\ HasLayer(wrapped, "handle") /\ call.beh.tag = "raise")
       => IF ClassesOf(call.beh.exc) = {}
          THEN call.trace.clause = None /\ call.trace.outcome = call.beh
          ELSE LET cls == ClassOrder[Earliest(ClassesOf(call.beh.exc))]
               IN  /\ call.trace.clause = cls
                   /\ call.trace.msg \in {NoMsg, ClauseMessage(cls)}
                   /\ call.trace.outcome.tag = "return"
                      => call.trace.outcome.val.msg = ClauseMessage(cls)
    /\ \A i, j \in 1..Len(ClassOrder) :
          i # j => ClauseMessage(ClassOrder[i]).template
                   # ClauseMessage(ClassOrder[j]).template

\* A connectivity failure, which is also a generic request failure and an
\* exception, was answered with the connectivity message.
C10_Witness ==
    /\ call.done
    /\ decorators = <<"handle_api_errors">>
    /\ call.beh.tag = "raise"
    /\ call.beh.exc.cls = "ConnectError"
    /\ Cardinality(ClassesOf(call.beh.exc)) = 3
    /\ call.trace.outcome.tag = "return"
    /\ call.trace.outcome.val.msg.template
          = "Connection error: Cannot connect to resource at "

\* ------------------------------------------------------------------ C11
\* C11: a handler that raises a connectivity failure returns, under the error
\* normalizer, the payload {"status": "error", "message": "Connection error:
\* Cannot connect to resource at <url>"}; the failure does not propagate.
C11_UniformErrorPayload ==
    (call.done /\ decorators = <<"handle_api_errors">>
        /\ call.beh.tag = "raise" /\ call.beh.exc.cls = "ConnectError")
    => /\ call.trace.outcome.tag = "return"
       /\ call.trace.outcome.val.shape = "mapping"
       /\ call.trace.outcome.val.keys = {"status", "message"}
       /\ call.trace.outcome.val.msg = ClauseMessage("ConnectError")

\* ------------------------------------------------------------------ C12
\* C12: the handler wrapped by the error normalizer and the instrumenter, in
\* either nesting, can be called, and when the handler's body returns a value
\* (a domain error included) the call returns exactly that value.
BothNestings ==
    {<<"handle_api_errors", "log_function_call">>,
     <<"log_function_call", "handle_api_errors">>}

C12_ReturnsUnmodified ==
    /\ (handler # NoHandler /\ decorators \in BothNestings)
       => wrapped.tag = "callable"
    /\ (call.done /\ decorators \in BothNestings /\ call.beh.tag = "return")
       => call.trace.outcome = call.beh

\* ------------------------------------------------------------------ C13
\* C13: one call of log_function_call(H) writes exactly one record before H
\* runs and exactly one after it, in that order, at debug level, whether H
\* returns or raises; what H returned or raised reaches the caller unchanged.
C13_OnePreOnePost ==
    (call.done /\ decorators = <<"log_function_call">>)
    => /\ call.trace.events
            = <<LogRecord("log", "pre"), RunEvent, LogRecord("log", "post")>>
       /\ LogRecord("log", "pre").level = "debug"
       /\ call.trace.outcome = call.beh

\* The handler raised, the record after the call was written, and the
\* exception reached the caller.
C13_Witness ==
    /\ call.done
    /\ decorators = <<"log_function_call">>
    /\ call.beh.tag = "raise"
    /\ call.trace.outcome.tag = "raise"
    /\ call.trace.logs = <<LogRecord("log", "pre"), LogRecord("log", "post")>>

\* ------------------------------------------------------------------ C14
\* C14: a call of a handler registered on a PlexMCP server through the queue
\* writes exactly two diagnostic records, one before and one after the
\* handler runs: the callable the server calls carries one instrumenting
\* layer.
C14_OneInstrumentingLayer ==
    (served # 0 /\ registry[served].server = "plex")
    => /\ call.trace.logs = <<LogRecord("log", "pre"), LogRecord("log", "post")>>
       /\ Cardinality({k \in 1..Len(registry[served].fn.layers) :
                          registry[served].fn.layers[k] = "log"}) = 1

\* ------------------------------------------------------------------ C15
\* C15: a Bound declare or a flush that completes has forwarded each
\* descriptor it handled to the registration entry point of the descriptor's
\* kind (tool, resource, prompt or route), with that descriptor's metadata.
ForwardedByKind(d) ==
    \E j \in (lastOp.callsBefore + 1)..Len(calls) :
        /\ calls[j].id = d.id
        /\ calls[j].api = d.kind
        /\ calls[j].meta = d.meta

C15_KindSelectsEntryPoint ==
    /\ (lastOp.name = "declare" /\ lastOp.appBefore # None
          /\ lastOp.raised = None /\ IsDeclaration(lastOp.decl))
       => ForwardedByKind(lastOp.decl)
    /\ (lastOp.name = "process" /\ lastOp.raised = None)
       => \A i \in 1..Len(lastOp.pendingBefore) :
             IsDeclaration(lastOp.pendingBefore[i])
             => ForwardedByKind(lastOp.pendingBefore[i])

C17_RegistrationFailurePropagates ==
    lastOp.rejected
    => /\ lastOp.raised = "RegistrationError"
       /\ Len(calls) > lastOp.callsBefore
       /\ \A j \in 1..Len(registry) : registry[j].id # calls[Len(calls)].id

\* A flush onto a PlexMCP server was rejected at its second descriptor.
C17_Witness ==
    /\ lastOp.name = "process"
    /\ lastOp.app = "plex"
    /\ lastOp.rejected
    /\ lastOp.raised = "RegistrationError"
    /\ Len(calls) = lastOp.callsBefore + 2

\* ------------------------------------------------------------------ C19
\* C19: every call of PendingMCPComponents.instance(), at any point of a
\* sequence of declarations and process calls, returns the same object: one
\* object is ever constructed, and the first process sees every declaration
\* made before it.
C19_OneSharedInstance ==
    /\ created <= 1
    /\ lastOp.name # "init" => (singleton = 1 /\ lastOp.obj = singleton)
    /\ (lastOp.name = "process" /\ processes = 1)
       => (lastOp.appBefore = None /\ Len(lastOp.pendingBefore) = declared)

\* instance() was called by two declarations and then by two process calls.
C19_Witness ==
    /\ declared >= 2
    /\ processes = 2
    /\ lastOp.name = "process"
    /\ lastOp.obj = 1
    /\ created = 1

\* ------------------------------------------------------------------ C18
\* C18: the list get_pending() returned is a snapshot: changing it in place
\* leaves the queue as it was, and the list keeps the items its holder saw
\* or put there whatever declarations and process calls follow.
C18_SnapshotIsDetached ==
    /\ lastOp.name = "mutate" => components = lastOp.pendingBefore
    /\ held.taken => HeldItems = held.expected

\* ------------------------------------------------------------------ C20
\* C20: whichever client tool runs and whichever of its SDK steps raise, the
\* call ends by returning a JSON object with a status field; no SDK exception
\* leaves the tool.
ResponseStatuses ==
    {"success", "error", "info", "warning", "multiple_results"}

C20_ToolsAlwaysAnswer ==
    /\ run.status # "raised"
    /\ run.status = "returned" => run.result \in ResponseStatuses

\* client_set_streams: the playback check raised, then client.title raised
\* inside the except block, and the tool still answered with an error.
C20_Witness ==
    /\ run.tool = "client_set_streams"
    /\ run.status = "returned"
    /\ run.faults = 2
    /\ run.exc = "ConnectionError"
    /\ run.result = "error"

\* ------------------------------------------------------------------ C21
\* C21: no declaration is lost: after a declare, and after a process even
\* when a registration raised part-way through the flush, every descriptor
\* the operation handled is still pending or was forwarded to the server's
\* registration API.
Accounted(d) == Pending(d.id) \/ CallsFor(d.id) # {}

C21_NoDeclarationLost ==
    /\ (lastOp.name = "declare" /\ IsDeclaration(lastOp.decl))
       => Accounted(lastOp.decl)
    /\ lastOp.name = "process"
       => \A i \in 1..Len(lastOp.pendingBefore) :
             IsDeclaration(lastOp.pendingBefore[i])
             => Accounted(lastOp.pendingBefore[i])

\* ------------------------------------------------------------------ C22
\* C22: wrapping a handler with handle_api_errors or log_and_handle_errors
\* does not run the handler, blocking or suspending: after the wrap and
\* before any invocation the handler's body has run zero times.
C22_WrapDoesNotRun ==
    (handler # NoHandler /\ ~call.done) => wrapped.wruns = 0

\* ------------------------------------------------------------------ C23
\* C23: once a server is bound the pending queue is empty in every state,
\* and a process on a Bound queue forwards nothing.
C23_BoundQueueStaysEmpty ==
    /\ mcpApp # None => components = <<>>
    /\ (lastOp.name = "process" /\ lastOp.appBefore # None)
       => (lastOp.pendingBefore = <<>> /\ Len(calls) = lastOp.callsBefore)

\* A declaration was made on the Bound queue and a second process followed.
C23_Witness ==
    /\ processes = 2
    /\ declared >= 1
    /\ lastOp.name = "process"
    /\ lastOp.appBefore # None
    /\ Len(calls) >= 1
    /\ calls[Len(calls)].id = declared
    /\ components = <<>>

\* ------------------------------------------------------------------ C24
\* C24: the server object run() starts serving is the one its process call
\* flushed the pending components into, for the stdio and the SSE transport.
C24_ServesTheFlushedServer ==
    started.status = "serving"
    => (started.server = started.flushed /\ started.server = mcpApp)

\* ------------------------------------------------------------------ C25
\* C25: what validate_transport returns is "stdio" or "sse"; run starts the
\* stdio transport for an argument that names stdio in any letter case, and
\* the SSE server only for one that names sse.
C25_TransportByName ==
    /\ started.status \in {"serving", "failed"}
       => started.transport \in {Stdio, Sse}
    /\ started.status = "serving"
       => /\ Lower(started.input) = Stdio => started.mode = "stdio"
          /\ started.mode = "sse" => Lower(started.input) = Sse

\* ------------------------------------------------------------------ C26
\* The SDK calls and reads the run has issued so far.
Issued(name) == \E i \in DOMAIN run.issued : run.issued[i] = name

\* The calls that look a client up, and the calls that act on one.
LookupCalls == {"plex.client", "plex.clients"}
ActingCalls ==
    {"client.command", "client.navigate", "client.playMedia",
     "client.setStream"}

NoLookup == \A n \in LookupCalls : ~Issued(n)
NoActing == \A n \in ActingCalls : ~Issued(n)

BadControlArguments ==
    \/ run.action \notin ValidPlaybackActions
    \/ run.action \in {"seekTo", "setVolume"} /\ ~run.parameter.given
    \/ run.mediaType \notin ValidMediaTypes

\* C26: when client_control_playback is called with an action outside the 13
\* valid ones, or with seekTo or setVolume and no parameter, or with a media
\* type other than video, music or photo, it never looks a client up and
\* never sends a playback command, and what it returns has status "error".
C26_ValidatesBeforeActing ==
    (run.tool = "client_control_playback" /\ BadControlArguments)
        => /\ NoLookup
           /\ NoActing
           /\ run.status = "returned" => run.result = "error"

\* A valid action with its parameter, rejected for its media type alone.
C26_Witness ==
    /\ run.tool = "client_control_playback"
    /\ run.status = "returned"
    /\ run.action = "setVolume"
    /\ run.parameter.given
    /\ run.mediaType \notin ValidMediaTypes
    /\ run.why = "invalid_media_type"
    /\ run.result = "error"

\* ------------------------------------------------------------------ C27
InVolumeRange(v) == MinVolume <= v /\ v <= MaxVolume

\* C27: client_control_playback sends setVolume to a client only with a
\* parameter from 0 to 100 inclusive; called with a parameter below 0 or
\* above 100 it never sends the command, and once it holds a client with the
\* playback capability its response is the error "Volume must be between 0
\* and 100".
C27_VolumeInRange ==
    (run.tool = "client_control_playback" /\ run.action = "setVolume")
        => /\ Issued("client.command")
                => run.parameter.given /\ InVolumeRange(run.parameter.value)
           /\ (run.parameter.given /\ ~InVolumeRange(run.parameter.value)
               /\ run.status = "returned")
                => /\ run.result = "error"
                   /\ "playback" \in run.caps => run.why = "volume_range"

\* setVolume with a parameter one below the range, rejected with the range
\* error after the client was found and had the playback capability.
C27_Witness ==
    /\ run.tool = "client_control_playback"
    /\ run.action = "setVolume"
    /\ run.parameter = [given |-> TRUE, value |-> MinVolume - 1]
    /\ run.status = "returned"
    /\ run.why = "volume_range"
    /\ "playback" \in run.caps
    /\ ~Issued("client.command")

SomeConnectedMatches ==
    \E i \in DOMAIN run.connected : Contains(run.ident, run.connected[i].id)

\* C29: in client_start_playback, client_control_playback, client_navigate
\* and client_set_streams, once the exact lookup raised NotFound and the
\* connected clients were listed, the tool acts only on a client whose
\* identifier contains the requested one; when no connected client does, it
\* acts on none and, unless the SDK failed again, its response is the error
\* "No client found matching".
C29_FallbackActsOnMatchOnly ==
    (run.tool \in ActingTools /\ Issued("plex.clients"))
        => /\ ~NoActing => Contains(run.ident, run.client.id)
           /\ ~SomeConnectedMatches
                => /\ NoActing
                   /\ (run.status = "returned" /\ run.faults = 1)
                        => /\ run.why \in {"no_match", "no_clients"}
                           /\ run.result = "error"

\* ------------------------------------------------------------------ C30
\* C30: client_start_playback calls playMedia only when the search found
\* exactly one item. With no result it returns status "error"; with more
\* than one it returns status "multiple_results" with count equal to the
\* number of results and the first 10 of them at most listed (unless reading
\* an item from the SDK raised); in both cases it looks no client up and
\* never calls playMedia.
C30_PlaysTheOnlyResult ==
    run.tool = "client_start_playback"
        => /\ Issued("client.playMedia") => run.nResults = 1
           /\ run.nResults # 1 => NoLookup /\ NoActing
           /\ (run.status = "returned" /\ run.faults = 0)
                => /\ run.nResults = 0 => run.result = "error"
                   /\ run.nResults > 1
                        => /\ run.result = "multiple_results"
                           /\ run.count = run.nResults
                           /\ run.listed <= MaxListed
                           /\ run.listed = IF run.nResults < MaxListed
                                           THEN run.nResults ELSE MaxListed

\* Eleven results: ten listed, eleven counted, no client looked up.
C30_Witness ==
    /\ run.tool = "client_start_playback"
    /\ run.status = "returned"
    /\ run.nResults = MaxListed + 1
    /\ run.result = "multiple_results"
    /\ run.listed = MaxListed
    /\ run.count = MaxListed + 1
    /\ NoLookup

====
